---------------------------- MODULE Spec2Model ----------------------------
(***************************************************************************)
(* Model of src/translation_machine_v2.py: the medical-abbreviation text   *)
(* substitution around the translation pipelines, the METEOR/BLEU scorer   *)
(* and the MachineTranslation.post request handler.                        *)
(*                                                                         *)
(* Texts are ASCII strings.  The translation pipelines and the two metric  *)
(* functions are external: a pipeline is a behaviour fixed at process      *)
(* start (it raises, or maps the text it is given to a text), and a metric *)
(* value is the uninterpreted application of the metric to its token lists.*)
(***************************************************************************)
EXTENDS Integers, Sequences, FiniteSets, TLC

VARIABLES
    translation_pipes, \* the two pipelines built at process start
    h,                 \* the requests being handled: handler id -> frame of post()
    ntext,             \* text given to the normalizer
    ndir,              \* its direction
    nlex,              \* the en->fr abbreviation mapping the normalizer is run with
    nprot,             \* result of preprocess_text
    nrest,             \* result of postprocess_text
    npc                \* position of the normalizer run

vars == <<translation_pipes, h, ntext, ndir, nlex, nprot, nrest, npc>>
hvars == <<translation_pipes, h>>
nvars == <<ntext, ndir, nlex, nprot, nrest, npc>>

(***************************************************************************)
(* Bounds                                                                  *)
(***************************************************************************)
MaxLen == 3

Alphabet == {"B", "P", "T", "A", " "}

RECURSIVE TextsUpTo(_)
TextsUpTo(n) ==
    IF n = 0 THEN {""}
    ELSE LET s == TextsUpTo(n - 1) IN s \cup {t \o c : t \in s, c \in Alphabet}

(***************************************************************************)
(* Python string primitives                                                *)
(***************************************************************************)
CharAt(s, i) == SubSeq(s, i, i)

\* s[i:i+len(old)] == old
MatchAt(s, old, i) ==
    /\ i + Len(old) - 1 <= Len(s)
    /\ SubSeq(s, i, i + Len(old) - 1) = old

\* old in s
Contains(s, old) == \E i \in 1..(Len(s) + 1) : MatchAt(s, old, i)

RECURSIVE ReplaceFrom(_, _, _, _)
\* the rest of s from position i, each occurrence of old (non-empty) found
\* scanning left to right replaced by new
ReplaceFrom(s, old, new, i) ==
    LET hits == {k \in i..Len(s) : MatchAt(s, old, k)} IN
    IF hits = {} THEN SubSeq(s, i, Len(s))
    ELSE LET k == CHOOSE m \in hits : \A n \in hits : m <= n
         IN SubSeq(s, i, k - 1) \o new \o ReplaceFrom(s, old, new, k + Len(old))

RECURSIVE Interleave(_, _, _)
Interleave(s, new, i) ==
    IF i > Len(s) THEN new ELSE new \o CharAt(s, i) \o Interleave(s, new, i + 1)

\* the receiver and the searched text swapped: old.replace(s, new)
StrReplace_SwappedReceiver(s, old, new) ==
    IF s = "" THEN Interleave(old, new, 1) ELSE ReplaceFrom(old, s, new, 1)

\* str.replace(old, new): every non-overlapping occurrence, left to right
StrReplace(s, old, new) ==
    IF old = "" THEN Interleave(s, new, 1) ELSE ReplaceFrom(s, old, new, 1)

\* the letters str.lower() changes in an ASCII text, and what it changes them
\* to (the texts of the model are ASCII: a string literal of the module
\* cannot hold a character above U+007F independently of the encoding the
\* module is read in)
Upper == "ABCDEFGHIJKLMNOPQRSTUVWXYZ"
LowerAlpha == "abcdefghijklmnopqrstuvwxyz"

LowerChar(c) ==
    IF \E k \in 1..Len(Upper) : CharAt(Upper, k) = c
    THEN CharAt(LowerAlpha, CHOOSE k \in 1..Len(Upper) : CharAt(Upper, k) = c)
    ELSE c

RECURSIVE LowerRange(_, _, _)
LowerRange(s, lo, hi) ==
    IF lo > hi THEN ""
    ELSE IF lo = hi THEN LowerChar(CharAt(s, lo))
    ELSE LET mid == (lo + hi) \div 2
         IN LowerRange(s, lo, mid) \o LowerRange(s, mid + 1, hi)

\* str.lower()
StrLower(s) == LowerRange(s, 1, Len(s))

\* the ASCII characters for which str.isspace() holds: space, \t, \n, \r,
\* \f, U+000B and U+001C..U+001F (the whitespace above U+007F, U+0085 and
\* U+00A0 among it, cannot occur in the ASCII texts of the model)
Whitespace ==
    {" ", "\t", "\n", "\r", "\f", "", "", "", "", ""}

IsSpace(c) == c \in Whitespace

\* str.strip(): drop leading and trailing whitespace
StrStrip(s) ==
    LET keep == {k \in 1..Len(s) : ~IsSpace(CharAt(s, k))} IN
    IF keep = {} THEN ""
    ELSE SubSeq(s, CHOOSE a \in keep : \A n \in keep : a <= n,
                   CHOOSE b \in keep : \A n \in keep : b >= n)

(***************************************************************************)
(* The abbreviation dictionaries (insertion-ordered key/value pairs)       *)
(***************************************************************************)
med_abbr_en_to_fr ==
    << <<"BP", "TA">>, <<"HR", "FC">>, <<"ECG", "ECG">>,
       <<"CT scan", "Tomodensitogrammes">>, <<"CPR", "RCR">>, <<"DVT", "TVP">>,
       <<"GERD", "RGO">>, <<"TKA", "PTG">>, <<"MRI", "IRM">>, <<"IV", "IV">>,
       <<"CBC", "NFS">>, <<"WBC", "GB">>, <<"RBC", "GR">>, <<"UTI", "ITU">>,
       <<"COPD", "BPCO">>, <<"CHF", "IC">> >>

\* d[key] = value on an insertion-ordered dict
DictPut(d, key, value) ==
    IF \E j \in 1..Len(d) : d[j][1] = key
    THEN [j \in 1..Len(d) |-> IF d[j][1] = key THEN <<key, value>> ELSE d[j]]
    ELSE Append(d, <<key, value>>)

RECURSIVE InvertFrom(_, _, _)
InvertFrom(d, i, acc) ==
    IF i > Len(d) THEN acc ELSE InvertFrom(d, i + 1, DictPut(acc, d[i][2], d[i][1]))

\* {v: k for k, v in d.items()}
InvertDict(d) == InvertFrom(d, 1, <<>>)

med_abbr_fr_to_en == InvertDict(med_abbr_en_to_fr)

\* abbr_dict = en_to_fr if direction == 'en_to_fr' else fr_to_en
abbr_dict(direction, en_to_fr) ==
    IF direction = "en_to_fr" THEN en_to_fr ELSE InvertDict(en_to_fr)

RECURSIVE ReplaceItems(_, _, _)
\* for key, value in d.items(): text = text.replace(key, value)
ReplaceItems(text, d, i) ==
    IF i > Len(d) THEN text
    ELSE LET replaced == StrReplace(text, d[i][1], d[i][2])
         IN IF Len(replaced) >= 0 THEN ReplaceItems(replaced, d, i + 1) ELSE replaced

\* preprocess_text run with a given en->fr mapping
preprocess_with(text, direction, en_to_fr) ==
    ReplaceItems(text, abbr_dict(direction, en_to_fr), 1)

\* postprocess_text run with a given en->fr mapping: the loop names its
\* variables (full_form, abbr) but still unpacks (key, value) of the same
\* dictionary, so it replaces keys by values exactly as preprocess_text does
postprocess_with(text, direction, en_to_fr) ==
    ReplaceItems(text, abbr_dict(direction, en_to_fr), 1)

preprocess_text(text, direction) == preprocess_with(text, direction, med_abbr_en_to_fr)

postprocess_text(text, direction) == postprocess_with(text, direction, med_abbr_en_to_fr)

(***************************************************************************)
(* The normalizer run on its own: a text, a direction and a mapping        *)
(***************************************************************************)
Directions == {"en_to_fr", "fr_to_en"}

\* the module's mapping, and selections of its entries no abbreviation of
\* which occurs in another abbreviation or in an expansion
Lexicons ==
    { med_abbr_en_to_fr,
      SubSeq(med_abbr_en_to_fr, 1, 2),
      SubSeq(med_abbr_en_to_fr, 15, 15) }

NormTexts == TextsUpTo(MaxLen) \cup {"COPD", "BPCO", "FC", "IRM", "a CT scan"}

NoHandlers == <<>>
NoPipes == [french |-> [kind |-> "unused"], english |-> [kind |-> "unused"]]

InitNorm ==
    /\ ntext \in NormTexts
    /\ ndir \in Directions
    /\ nlex \in Lexicons
    /\ nprot = ""
    /\ nrest = ""
    /\ npc = "input"
    /\ h = NoHandlers
    /\ translation_pipes = NoPipes

\* protected = preprocess_text(text, d)
Protect ==
    /\ npc = "input"
    /\ nprot' = preprocess_with(ntext, ndir, nlex)
    /\ npc' = "protected"
    /\ UNCHANGED <<ntext, ndir, nlex, nrest, hvars>>

\* restored = postprocess_text(protected, d)
Restore ==
    /\ npc = "protected"
    /\ nrest' = postprocess_with(nprot, ndir, nlex)
    /\ npc' = "roundtrip"
    /\ UNCHANGED <<ntext, ndir, nlex, nprot, hvars>>

\* restored = postprocess_text(text, d), on the text itself
RestoreOnly ==
    /\ npc = "input"
    /\ nrest' = postprocess_with(ntext, ndir, nlex)
    /\ npc' = "restored"
    /\ UNCHANGED <<ntext, ndir, nlex, nprot, hvars>>

NextNorm == Protect \/ Restore \/ RestoreOnly

SpecNorm == InitNorm /\ [][NextNorm]_vars

(***************************************************************************)
(* Python values that are not plain texts                                  *)
(***************************************************************************)
None == [type |-> "NoneType"]

Str(s) == [type |-> "str", value |-> s]

\* {"Result": False, "Message": message}
ErrorPayload(message) == [type |-> "dict", Result |-> FALSE, Message |-> message]

\* f"Translation error: {str(e)}"
TranslationError(e) == "Translation error: " \o e

\* str(e) of the AttributeError raised by text.lower() on a dict
DictHasNoLower == "'dict' object has no attribute 'lower'"

(***************************************************************************)
(* The scorer                                                              *)
(***************************************************************************)
\* the k-th smallest element of a set of integers
Kth(S, k) == CHOOSE x \in S : Cardinality({y \in S : y <= x}) = k

\* nltk.word_tokenize(text.lower()) on texts of letters and whitespace:
\* the maximal runs of non-whitespace characters of the lower-cased text
tokenize(text) ==
    LET s == StrLower(text)
        n == Len(s)
        starts == {k \in 1..n : ~IsSpace(CharAt(s, k)) /\ (k = 1 \/ IsSpace(CharAt(s, k - 1)))}
        ends == {k \in 1..n : ~IsSpace(CharAt(s, k)) /\ (k = n \/ IsSpace(CharAt(s, k + 1)))}
    IN [k \in 1..Cardinality(starts) |-> SubSeq(s, Kth(starts, k), Kth(ends, k))]

\* meteor_score.meteor_score([reference_tokens], candidate_tokens)
meteor_score(references, hypothesis) ==
    [type |-> "float", metric |-> "meteor_score",
     references |-> references, hypothesis |-> hypothesis]

\* sentence_bleu([reference_tokens], candidate_tokens)
sentence_bleu(references, hypothesis) ==
    [type |-> "float", metric |-> "sentence_bleu",
     references |-> references, hypothesis |-> hypothesis]

\* 'and' written for 'or'
NoTokens_And(reference_tokens, candidate_tokens) ==
    reference_tokens = <<>> /\ candidate_tokens = <<>>

\* if not reference_tokens or not candidate_tokens
NoTokens(reference_tokens, candidate_tokens) ==
    reference_tokens = <<>> \/ candidate_tokens = <<>>

\* metrics(predicted, reference) on two texts: <<meteor, bleu>>
metrics(predicted, reference) ==
    LET reference_tokens == tokenize(reference)
        candidate_tokens == tokenize(predicted)
    IN IF NoTokens(reference_tokens, candidate_tokens) THEN <<None, None>>
       ELSE << meteor_score(<<reference_tokens>>, candidate_tokens),
               sentence_bleu(<<reference_tokens>>, candidate_tokens) >>

(***************************************************************************)
(* The translation pipelines                                               *)
(***************************************************************************)
\* what a pipeline built at start may do with the text it is given
PipeBehaviours ==
    { [kind |-> "raise", error |-> "model failure"],
      [kind |-> "echo"],
      [kind |-> "const", text |-> "   "],
      [kind |-> "const", text |-> " Le patient BPCO "] }

\* pipe(text): raises, or returns [{'translation_text': ...}]
PipeCall(pipe, text) ==
    IF pipe.kind = "raise" THEN [raised |-> TRUE, error |-> pipe.error]
    ELSE IF pipe.kind = "echo" THEN [raised |-> FALSE, translation_text |-> text]
    ELSE [raised |-> FALSE, translation_text |-> pipe.text]

(***************************************************************************)
(* MachineTranslation.post                                                 *)
(***************************************************************************)
\* a field the request does not carry
Missing == [type |-> "missing"]

\* help= of the translate_to argument
TranslateToHelp == "Language you want to translate to"

\* str(e) of the AttributeError raised by a method call on None
NoneHasNo(attr) == "'NoneType' object has no attribute '" \o attr \o "'"

\* an argument with default='': the default when the field is missing; a
\* field sent as null stays None
ArgOrDefault(v) == IF v = Missing THEN Str("") ELSE v

\* the namespace parser.parse_args() returns for a request carrying translate_to
parse_args(request) ==
    [ translate_to |-> request.translate_to,
      english_text |-> ArgOrDefault(request.english_text),
      french_text |-> ArgOrDefault(request.french_text),
      ground_truth_english |-> ArgOrDefault(request.ground_truth_english),
      ground_truth_french |-> ArgOrDefault(request.ground_truth_french) ]

\* the frame of post() as it is entered
NewFrame(request) ==
    [ request |-> request,
      args |-> None,
      pc |-> "Received",
      translate_to |-> "",
      input_text |-> "",
      ground_truth |-> "",
      translated |-> None,
      meteor_score_val |-> None,
      bleu_score_val |-> None,
      pipe_calls |-> <<>>,
      pipe_outcome |-> "none",
      metrics_calls |-> 0,
      exception |-> None,
      response |-> None ]

\* translate_to in ['french', 'fr']
IsFrenchTarget(translate_to) == translate_to \in {"french", "fr"}

\* translate_to in ['english', 'en']
IsEnglishTarget(translate_to) == translate_to \in {"english", "en"}

\* translate_to = args.translate_to.lower()
TargetOf(args) == StrLower(args.translate_to.value)

\* not value
Falsy(v) == v = None \/ v = Str("")

\* return {"Result": False, "Message": message}, 400
Reject(f, message) ==
    [f EXCEPT !.pc = "Rejected",
              !.response = [status |-> 400, body |-> ErrorPayload(message)]]

\* return {"Result": False, "Message": f"Translation error: {str(e)}"}, 500
Fail(f, e) ==
    [f EXCEPT !.pc = "Failed",
              !.response = [status |-> 500, body |-> ErrorPayload(TranslationError(e))]]

\* an exception no except clause of post() catches: post() builds no response
Raise(f, e) == [f EXCEPT !.pc = "Raised", !.exception = Str(e)]

\* parse_args(): required=True on translate_to makes reqparse abort with 400
\* and its own body when the request carries no translate_to
parse(f) ==
    IF f.request.translate_to = Missing
    THEN [f EXCEPT !.pc = "Rejected",
                   !.response = [status |-> 400,
                                 body |-> [message |-> [translate_to |-> TranslateToHelp]]]]
    ELSE [f EXCEPT !.args = parse_args(f.request), !.pc = "Parsed"]

\* args.translate_to.lower(), then the if / elif / else on translate_to and
\* the 'if not args.<text>' checks
validate(f) ==
    IF f.args.translate_to = None THEN Raise(f, NoneHasNo("lower"))
    ELSE
    LET translate_to == TargetOf(f.args)
        g == [f EXCEPT !.translate_to = translate_to]
    IN IF IsFrenchTarget(translate_to)
       THEN IF Falsy(f.args.english_text)
            THEN Reject(g, "English text is required")
            ELSE [g EXCEPT !.pc = "Validated"]
       ELSE IF IsEnglishTarget(translate_to)
       THEN IF Falsy(f.args.french_text)
            THEN Reject(g, "French text is required")
            ELSE [g EXCEPT !.pc = "Validated"]
       ELSE Reject(g, "Invalid language specified")

\* preprocess_text on an argument: None has no replace()
PreprocessArg(v, direction) ==
    IF v = None THEN [raised |-> TRUE, error |-> NoneHasNo("replace")]
    ELSE [raised |-> FALSE, text |-> preprocess_text(v.value, direction)]

\* the reference of the other language taken
french_ground_truth_OtherField(args) == PreprocessArg(args.ground_truth_english, "en_to_fr")

\* ground_truth = preprocess_text(args.ground_truth_french, direction='en_to_fr')
french_ground_truth(args) == PreprocessArg(args.ground_truth_french, "en_to_fr")

\* ground_truth = preprocess_text(args.ground_truth_english, direction='fr_to_en')
english_ground_truth(args) == PreprocessArg(args.ground_truth_english, "fr_to_en")

\* input_text = preprocess_text(args.english_text, direction='en_to_fr')
french_input_text(args) == preprocess_text(args.english_text.value, "en_to_fr")

\* processed_text = preprocess_text(french_text, direction='fr_to_en')
english_input_text(args) == preprocess_text(args.french_text.value, "fr_to_en")

\* the texts prepared before the pipeline is called: on the french branch the
\* source text and the reference (outside the try), on the english branch the
\* source text only
protect(f) ==
    IF IsFrenchTarget(f.translate_to)
    THEN LET g == [f EXCEPT !.input_text = french_input_text(f.args)]
             ground_truth == french_ground_truth(f.args)
         IN IF ground_truth.raised THEN Raise(g, ground_truth.error)
            ELSE [g EXCEPT !.ground_truth = ground_truth.text, !.pc = "Translating"]
    ELSE [f EXCEPT !.input_text = english_input_text(f.args),
                   !.pc = "Translating"]

\* the pipeline post() uses for the frame's target
PipeName(f) == IF IsFrenchTarget(f.translate_to) THEN "french" ELSE "english"

\* the scorer called whether or not a reference was given
ScoreWanted_Always(ground_truth) == TRUE

\* if ground_truth:
ScoreWanted(ground_truth) == ground_truth # ""

AfterTranslation(ground_truth) ==
    IF ScoreWanted(ground_truth) THEN "Scoring" ELSE "Responding"

\* result[0]['translation_text'].strip(), then postprocess_text
french_translated(result) ==
    Str(postprocess_text(StrStrip(result.translation_text), "en_to_fr"))

english_translated(result) ==
    Str(postprocess_text(StrStrip(result.translation_text), "fr_to_en"))

\* what translate_french_to_english returns when the pipeline raises
english_translation_failed(result) == ErrorPayload(TranslationError(result.error))

\* the english branch after translate_french_to_english returned: the
\* reference is prepared inside the try, so a None reference is answered 500
english_reference(f) ==
    LET ground_truth == english_ground_truth(f.args)
    IN IF ground_truth.raised THEN Fail(f, ground_truth.error)
       ELSE [f EXCEPT !.ground_truth = ground_truth.text,
                      !.pc = AfterTranslation(ground_truth.text)]

\* the pipeline returned: strip, postprocess, and on the english branch
\* prepare the reference
translate_returned(f, result) ==
    IF IsFrenchTarget(f.translate_to)
    THEN [f EXCEPT !.pipe_calls = Append(@, "french"),
                   !.pipe_outcome = "returned",
                   !.translated = french_translated(result),
                   !.pc = AfterTranslation(f.ground_truth)]
    ELSE english_reference(
             [f EXCEPT !.pipe_calls = Append(@, "english"),
                       !.pipe_outcome = "returned",
                       !.translated = english_translated(result)])

\* the pipeline raised: the french branch's except clause answers 500; on the
\* english branch translate_french_to_english catches the error and returns
\* the error dict, which post() takes as the translation and goes on
translate_raised(f, result) ==
    IF IsFrenchTarget(f.translate_to)
    THEN [Fail(f, result.error) EXCEPT !.pipe_calls = Append(@, "french"),
                                       !.pipe_outcome = "raised"]
    ELSE english_reference(
             [f EXCEPT !.pipe_calls = Append(@, "english"),
                       !.pipe_outcome = "raised",
                       !.translated = english_translation_failed(result)])

\* meteor_score_val, bleu_score_val = metrics(translated, ground_truth); a
\* translation that is not a str makes tokenize raise AttributeError, which
\* the enclosing except clause answers with 500
score(f) ==
    LET g == [f EXCEPT !.metrics_calls = @ + 1] IN
    IF f.translated.type # "str" THEN Fail(g, DictHasNoLower)
    ELSE LET m == metrics(f.translated.value, f.ground_truth)
         IN [g EXCEPT !.meteor_score_val = m[1],
                      !.bleu_score_val = m[2],
                      !.pc = "Responding"]

\* jsonify({"french_text" | "english_text": ..., "meteor_score": ..., "bleu_score": ...})
SuccessBody(f) ==
    IF IsFrenchTarget(f.translate_to)
    THEN [french_text |-> f.translated,
          meteor_score |-> f.meteor_score_val, bleu_score |-> f.bleu_score_val]
    ELSE [english_text |-> f.translated,
          meteor_score |-> f.meteor_score_val, bleu_score |-> f.bleu_score_val]

respond(f) ==
    [f EXCEPT !.pc = "Responded",
              !.response = [status |-> 200, body |-> SuccessBody(f)]]

(***************************************************************************)
(* Actions of the handler                                                  *)
(***************************************************************************)
ParseArgs(i) ==
    /\ h[i].pc = "Received"
    /\ h' = [h EXCEPT ![i] = parse(h[i])]
    /\ UNCHANGED <<translation_pipes, nvars>>

Validate(i) ==
    /\ h[i].pc = "Parsed"
    /\ h' = [h EXCEPT ![i] = validate(h[i])]
    /\ UNCHANGED <<translation_pipes, nvars>>

ProtectTexts(i) ==
    /\ h[i].pc = "Validated"
    /\ h' = [h EXCEPT ![i] = protect(h[i])]
    /\ UNCHANGED <<translation_pipes, nvars>>

PipeReturns(i) ==
    /\ h[i].pc = "Translating"
    /\ LET result == PipeCall(translation_pipes[PipeName(h[i])], h[i].input_text)
       IN /\ ~result.raised
          /\ h' = [h EXCEPT ![i] = translate_returned(h[i], result)]
    /\ UNCHANGED <<translation_pipes, nvars>>

PipeRaises(i) ==
    /\ h[i].pc = "Translating"
    /\ LET result == PipeCall(translation_pipes[PipeName(h[i])], h[i].input_text)
       IN /\ result.raised
          /\ h' = [h EXCEPT ![i] = translate_raised(h[i], result)]
    /\ UNCHANGED <<translation_pipes, nvars>>

Score(i) ==
    /\ h[i].pc = "Scoring"
    /\ h' = [h EXCEPT ![i] = score(h[i])]
    /\ UNCHANGED <<translation_pipes, nvars>>

Respond(i) ==
    /\ h[i].pc = "Responding"
    /\ h' = [h EXCEPT ![i] = respond(h[i])]
    /\ UNCHANGED <<translation_pipes, nvars>>

Next ==
    \/ \E i \in DOMAIN h : ParseArgs(i)
    \/ \E i \in DOMAIN h : Validate(i)
    \/ \E i \in DOMAIN h : ProtectTexts(i)
    \/ \E i \in DOMAIN h : PipeReturns(i)
    \/ \E i \in DOMAIN h : PipeRaises(i)
    \/ \E i \in DOMAIN h : Score(i)
    \/ \E i \in DOMAIN h : Respond(i)

(***************************************************************************)
(* Requests: every field a text, null, or not sent                         *)
(***************************************************************************)
TargetValues ==
    {Missing, None, Str("french"), Str("FR"), Str("English"), Str("en"),
     Str("spanish"), Str("")}
EnglishTexts == {Missing, None, Str(""), Str(" "), Str("The patient has COPD")}
FrenchTexts == {Missing, None, Str(""), Str(" "), Str("Le patient a la BPCO")}
FrenchReferences == {Missing, None, Str(" "), Str("Le patient a la BPCO")}
EnglishReferences == {Missing, None, Str(" "), Str("The patient has COPD")}

Requests ==
    [ translate_to : TargetValues,
      english_text : EnglishTexts,
      french_text : FrenchTexts,
      ground_truth_english : EnglishReferences,
      ground_truth_french : FrenchReferences ]

NormIdle ==
    /\ ntext = ""
    /\ ndir = "en_to_fr"
    /\ nlex = med_abbr_en_to_fr
    /\ nprot = ""
    /\ nrest = ""
    /\ npc = "idle"

\* one request, the two pipelines behaving in any of the ways above
Init ==
    /\ translation_pipes \in [french : PipeBehaviours, english : PipeBehaviours]
    /\ h \in {<<NewFrame(a)>> : a \in Requests}
    /\ NormIdle

Spec == Init /\ [][Next]_vars

\* two requests served by the same process
PairRequests ==
    [ translate_to : {Missing, Str("french"), Str("EN"), Str("es")},
      english_text : {Missing, Str("BP")},
      french_text : {Str(""), Str("TA")},
      ground_truth_english : {None, Str(""), Str("BP")},
      ground_truth_french : {None, Str("TA")} ]

PairPipes == {[kind |-> "raise", error |-> "model failure"], [kind |-> "echo"]}

InitPair ==
    /\ translation_pipes \in [french : PairPipes, english : PairPipes]
    /\ h \in {<<NewFrame(a), NewFrame(b)>> : a, b \in PairRequests}
    /\ NormIdle

SpecPair == InitPair /\ [][Next]_vars

(***************************************************************************)
(* Properties                                                              *)
(***************************************************************************)
Targets == {"french", "fr", "english", "en"}

\* post() is over: it answered, or it raised
Finished(f) == f.pc \in {"Rejected", "Failed", "Responded", "Raised"}

\* the request's translate_to lower-cased; "" when it is not a text
RequestTarget(request) ==
    IF request.translate_to.type = "str" THEN StrLower(request.translate_to.value) ELSE ""

\* the field carries no text, or the empty text
Empty(v) == v \in {Missing, None, Str("")}

\* the reference text the request supplies for its target language
SuppliedReference(f) ==
    IF IsFrenchTarget(RequestTarget(f.request))
    THEN f.request.ground_truth_french
    ELSE f.request.ground_truth_english

\* no abbreviation (key) of d occurs in another abbreviation or in an expansion
NonOverlap(d) ==
    \A a \in 1..Len(d) : \A b \in 1..Len(d) :
        /\ (a # b => ~Contains(d[b][1], d[a][1]))
        /\ ~Contains(d[b][2], d[a][1])

\* C1: under a mapping in which no abbreviation occurs in another
\* abbreviation or in an expansion, postprocess_text(preprocess_text(text, d), d)
\* is text again.
C1_RoundTrip ==
    (npc = "roundtrip" /\ NonOverlap(abbr_dict(ndir, nlex))) => nrest = ntext

\* C2: whenever the pipeline raised, the response is the error payload with
\* status 500 carrying the pipeline's error message.
C2_ModelErrorAnswers500 ==
    \A i \in DOMAIN h :
        (h[i].pipe_outcome = "raised" /\ h[i].response # None) =>
            h[i].response =
                [status |-> 500,
                 body |-> ErrorPayload(
                     TranslationError(translation_pipes[PipeName(h[i])].error))]

\* C3: target french, english_text containing COPD, the pipeline passing its
\* input through: the response's french_text contains BPCO.
C3_RestoredBPCO ==
    \A i \in DOMAIN h :
        ( /\ h[i].response # None
          /\ IsFrenchTarget(RequestTarget(h[i].request))
          /\ h[i].request.english_text.type = "str"
          /\ Contains(h[i].request.english_text.value, "COPD")
          /\ translation_pipes.french.kind = "echo" ) =>
            /\ h[i].response.status = 200
            /\ Contains(h[i].response.body.french_text.value, "BPCO")

\* the requests the handler is to reject
ShouldReject(request) ==
    LET t == RequestTarget(request) IN
    \/ t \notin Targets
    \/ (t \in {"french", "fr"} /\ Empty(request.english_text))
    \/ (t \in {"english", "en"} /\ Empty(request.french_text))

RejectionMessages ==
    {"English text is required", "French text is required", "Invalid language specified"}

\* answered 400 with {Result: false, Message}
Rejected400(f) ==
    /\ f.response # None
    /\ f.response.status = 400
    /\ \E m \in RejectionMessages : f.response.body = ErrorPayload(m)

\* C4: a request is answered 400 with {Result: false, Message} exactly when
\* its target, lower-cased, is none of french/fr/english/en or the source text
\* of its direction is empty, and for such a request no pipeline is ever called.
C4_RejectedExactlyWhenInvalid ==
    \A i \in DOMAIN h :
        /\ Finished(h[i]) => (Rejected400(h[i]) <=> ShouldReject(h[i].request))
        /\ ShouldReject(h[i].request) => h[i].pipe_calls = <<>>

\* C5: in a request answered 200 metrics was called if and only if the
\* supplied reference of the target language is non-empty; with an empty
\* reference metrics is never called and both scores of the response are null.
C5_ScoredIffReference ==
    \A i \in DOMAIN h :
        /\ Empty(SuppliedReference(h[i])) => h[i].metrics_calls = 0
        /\ (h[i].response # None /\ h[i].response.status = 200) =>
            /\ (h[i].metrics_calls > 0) <=> ~Empty(SuppliedReference(h[i]))
            /\ Empty(SuppliedReference(h[i])) =>
                   /\ h[i].response.body.meteor_score = None
                   /\ h[i].response.body.bleu_score = None

C5_Witness ==
    \E i \in DOMAIN h :
        /\ h[i].response # None
        /\ h[i].response.status = 200
        /\ SuppliedReference(h[i]) = Str(" ")
        /\ h[i].metrics_calls = 1

\* C6: metrics called on two texts gives (None, None), and does not fail,
\* whenever one of them has no tokens, and two scores only when both have
\* tokens; a response has a non-null score only if a reference was supplied
\* and the translation and the reference both have at least one token.
C6_ScoresOnlyWithTokens ==
    \A i \in DOMAIN h :
        /\ (h[i].metrics_calls > 0 /\ h[i].translated.type = "str") =>
            /\ h[i].pc # "Failed"
            /\ LET zero == \/ tokenize(h[i].translated.value) = <<>>
                           \/ tokenize(h[i].ground_truth) = <<>>
               IN /\ zero => (h[i].meteor_score_val = None /\ h[i].bleu_score_val = None)
                  /\ ~zero => /\ h[i].meteor_score_val.type = "float"
                              /\ h[i].bleu_score_val.type = "float"
        /\ ( /\ h[i].response # None
             /\ h[i].response.status = 200
             /\ \/ h[i].response.body.meteor_score # None
                \/ h[i].response.body.bleu_score # None ) =>
            /\ ~Empty(SuppliedReference(h[i]))
            /\ tokenize(SuppliedReference(h[i]).value) # <<>>
            /\ h[i].translated.type = "str"
            /\ tokenize(h[i].translated.value) # <<>>

C6_Witness ==
    \E i \in DOMAIN h :
        /\ h[i].pc = "Responded"
        /\ h[i].metrics_calls = 1
        /\ h[i].translated = Str("")
        /\ tokenize(h[i].ground_truth) # <<>>
        /\ h[i].response.body.meteor_score = None

\* the fields of a request that belong to its direction, as parse_args
\* hands them to post()
DirectionFields(request) ==
    LET t == RequestTarget(request) IN
    IF IsFrenchTarget(t)
    THEN <<request.translate_to, ArgOrDefault(request.english_text),
           ArgOrDefault(request.ground_truth_french)>>
    ELSE IF IsEnglishTarget(t)
    THEN <<request.translate_to, ArgOrDefault(request.french_text),
           ArgOrDefault(request.ground_truth_english)>>
    ELSE <<request.translate_to>>

\* how post() ended: the response, or the exception it raised
Outcome(f) == <<f.pc, f.response, f.exception>>

\* C7: two requests served with the same pipelines that agree on translate_to,
\* on the source text of that direction and on the reference of that
\* direction end the same way, with the same response, whatever their other
\* fields hold.
C7_OtherFieldsIgnored ==
    \A i \in DOMAIN h : \A j \in DOMAIN h :
        ( /\ Finished(h[i])
          /\ Finished(h[j])
          /\ DirectionFields(h[i].request) = DirectionFields(h[j].request) ) =>
            Outcome(h[i]) = Outcome(h[j])

C7_Witness ==
    \E i \in DOMAIN h : \E j \in DOMAIN h :
        /\ h[i].response # None
        /\ h[j].response # None
        /\ h[i].response.status = 200
        /\ h[i].metrics_calls = 1
        /\ IsFrenchTarget(h[i].translate_to)
        /\ DirectionFields(h[i].request) = DirectionFields(h[j].request)
        /\ h[i].request.french_text # h[j].request.french_text
        /\ h[i].request.ground_truth_english # h[j].request.ground_truth_english

\* C8: preprocess_text("", d) = "" and postprocess_text("", d) = "".
C8_EmptyTextUnchanged ==
    /\ (ntext = "" /\ npc \in {"protected", "roundtrip"}) => nprot = ""
    /\ (ntext = "" /\ npc = "restored") => nrest = ""
    /\ (nprot = "" /\ npc = "roundtrip") => nrest = ""

C8_Witness ==
    /\ ntext = ""
    /\ npc = "roundtrip"
    /\ nprot = ""
    /\ nrest = ""
    /\ nlex = med_abbr_en_to_fr

\* C9: postprocess_text replaces the expansions (values) of the direction's
\* mapping by their abbreviations (keys): a text that is one expansion comes
\* back as its abbreviation.
C9_ExpansionRestored ==
    npc = "restored" =>
        LET d == abbr_dict(ndir, nlex) IN
        \A k \in 1..Len(d) : ntext = d[k][2] => nrest = d[k][1]

\* C10: metrics is reached only after the pipeline returned, and a pipeline
\* error takes the request straight to Failed.
C10_FailureSkipsScoring ==
    \A i \in DOMAIN h :
        /\ h[i].pc = "Scoring" => h[i].pipe_outcome = "returned"
        /\ h[i].metrics_calls > 0 => h[i].pipe_outcome = "returned"
        /\ h[i].pipe_outcome = "raised" => h[i].pc = "Failed"

=============================================================================
